---- MODULE Spec2Model ----
(***************************************************************************)
(* docsheep (quickstart.go): title extraction from tesseract hOCR output   *)
(* and the rotation retry loop of main.                                    *)
(*                                                                         *)
(* Strings are sequences of runes.  A rune is written as a one-character   *)
(* string; a non-ASCII rune is written by its code point ("U+00F6").       *)
(* A confidence score (float64 in the code) is kept as the exact fraction  *)
(* [sum, n] that avg divides.                                              *)
(***************************************************************************)
EXTENDS Integers, Sequences, FiniteSets, TLC

VARIABLES pc, docNo, docTitle, rotations, idx, title, outputPrefix,
          tried, rotated, results, uploaded, hocr, ocrOut

vars == <<pc, docNo, docTitle, rotations, idx, title, outputPrefix,
          tried, rotated, results, uploaded, hocr, ocrOut>>

(* ---------------------------------------------------------------- bounds *)
MaxWords == 3
MaxDocs == 2

(* ------------------------------------------------------ program constants *)
FontSizeFactor == 10
TallThreshold == 1400
TallPenalty == 50
StoplistPenalty == 100
WordConfidenceGate == 70
TitleCap == 80
GoodEnoughThreshold == 70

(* ------------------------------------------------------------------ runes *)
Rep(c, n) == [i \in 1..n |-> c]

Digits == {"0", "1", "2", "3", "4", "5", "6", "7", "8", "9"}

Letters == {"a", "b", "c", "d", "e", "f", "g", "h", "i", "j", "k", "l", "m",
            "n", "o", "p", "q", "r", "s", "t", "u", "v", "w", "x", "y", "z",
            "A", "F", "H", "I", "M", "N", "R", "S", "W",
            "U+00F6", "U+00C3"}

TwoByteRunes == {"U+00F6", "U+00C3", "U+00B6"}

IsLetter(roone) == roone \in Letters

IsDigit(roone) == roone \in Digits

RuneLen(roone) == IF roone \in TwoByteRunes THEN 2 ELSE 1

RECURSIVE ByteLenFrom(_, _)
ByteLenFrom(s, k) ==
    IF k > Len(s) THEN 0 ELSE RuneLen(s[k]) + ByteLenFrom(s, k + 1)

(* len(s) of a Go string: the number of bytes of its UTF-8 encoding *)
ByteLen(s) == ByteLenFrom(s, 1)

DigitVal(c) ==
    CASE c = "0" -> 0 [] c = "1" -> 1 [] c = "2" -> 2 [] c = "3" -> 3
      [] c = "4" -> 4 [] c = "5" -> 5 [] c = "6" -> 6 [] c = "7" -> 7
      [] c = "8" -> 8 [] c = "9" -> 9

RECURSIVE DigitsValue(_, _, _)
DigitsValue(s, k, acc) ==
    IF k > Len(s) THEN acc
    ELSE DigitsValue(s, k + 1, acc * 10 + DigitVal(s[k]))

(* strconv.Atoi with the error dropped: 0 unless s is an optional sign     *)
(* followed by one or more decimal digits.  The inputs are short digit     *)
(* strings: the range error of Atoi and the wrap-around of fontSize * 10   *)
(* do not arise.                                                           *)
Atoi(s) ==
    LET signed == s # <<>> /\ s[1] \in {"+", "-"}
        body   == IF signed THEN Tail(s) ELSE s
    IN  IF body = <<>> \/ \E k \in DOMAIN body : ~IsDigit(body[k]) THEN 0
        ELSE IF signed /\ s[1] = "-" THEN 0 - DigitsValue(body, 1, 0)
        ELSE DigitsValue(body, 1, 0)

(* ----------------------------------------------------------- the stoplist *)
wordStoplist ==
    { <<"M","i","s","t","e","r">>, <<"H","e","r","r">>, <<"F","r","a","u">>,
      <<"8","0","5","2">>, <<"8","8","0","2">>, <<"A","r","t","e","m">>,
      <<"N","a","t","a","l","i","a">>,
      <<"M","a","l","y","s","h","e","v">>, <<"M","a","l","y","s","h","e","w">>,
      <<"M","a","l","y","s","h","e","v","a">>,
      <<"W","e","i","n","b","e","r","g","s","t","r","a","s","s","e">>,
      <<"2","3">>,
      <<"H","U+00C3","U+00B6","h","e","n","r","i","n","g">>,
      <<"S","c","h","a","f","f","h","a","u","s","e","r","s","t","r","a","s","s","e">>,
      <<"5","4","7">> }

(* ------------------------------------------------- hOCR markup of a page *)
(* A word element of the markup: the page scope it sits under, its text,   *)
(* its title attribute as the list of ';'-separated properties (each the   *)
(* name and the space-separated fields after it; wellFormed is FALSE for a *)
(* property without a space), and whether it nests <strong> / <em>.        *)
Property(name, fields) == [name |-> name, wellFormed |-> TRUE, fields |-> fields]

BareProperty(name) == [name |-> name, wellFormed |-> FALSE, fields |-> <<>>]

(* props[name] after the loop of lines 161-164: the value of the last      *)
(* property of that name, the empty string (no fields) when there is none  *)
PropFields(props, name) ==
    LET at == {k \in DOMAIN props : props[k].name = name}
    IN  IF at = {} THEN <<>>
        ELSE props[CHOOSE k \in at : \A j \in at : j <= k].fields

(* strconv.Atoi of a property value: a value with a space in it, or an     *)
(* empty one, is not a number                                              *)
AtoiFields(fields) == IF Len(fields) = 1 THEN Atoi(fields[1]) ELSE 0

(* nameValue[1] of a property without a space, and                         *)
(* strings.Split(props["bbox"], " ")[1] of a bbox with fewer than two      *)
(* fields, index out of range: the process panics                          *)
WordPanics(raw) ==
    \/ \E k \in DOMAIN raw.props : ~raw.props[k].wellFormed
    \/ Len(PropFields(raw.props, "bbox")) < 2

WeightWithEmphasis(fontSize, isStrong, isEm, height, text) ==
    LET w0 == fontSize * FontSizeFactor
        w1 == IF isStrong THEN w0 + 5 ELSE w0
        w2 == IF isEm THEN w1 + 3 ELSE w1
        w3 == IF height > TallThreshold THEN w2 - TallPenalty ELSE w2
    IN  IF text \in wordStoplist THEN w3 - StoplistPenalty ELSE w3

(* lines 170-182; the isStrong / isEm adjustment is commented out *)
Weight(fontSize, isStrong, isEm, height, text) ==
    LET w0 == fontSize * FontSizeFactor
        w1 == IF height > TallThreshold THEN w0 - TallPenalty ELSE w0
    IN  IF text \in wordStoplist THEN w1 - StoplistPenalty ELSE w1

(* the Word appended by the callback of lines 159-184 *)
ParseWord(raw) ==
    LET fontSize   == AtoiFields(PropFields(raw.props, "x_fsize"))
        confidence == AtoiFields(PropFields(raw.props, "x_wconf"))
        height     == Atoi(PropFields(raw.props, "bbox")[2])
    IN  [text |-> raw.text, fontSize |-> fontSize, confidence |-> confidence,
         isStrong |-> raw.strong, isEm |-> raw.em, height |-> height,
         weight |-> Weight(fontSize, raw.strong, raw.em, height, raw.text)]

(* doc.Find("#page_1").Find(".ocrx_word"): the word elements under the     *)
(* first page, in document order                                           *)
FindPage1Words(h) ==
    LET OnPage1(raw) == raw.page = 1
    IN  IF h.hasPage1 THEN SelectSeq(h.words, OnPage1) ELSE <<>>

(* ----------------------------------------------------------------- sort *)
(* ByWeight.Less *)
Less(a, b) == a.weight < b.weight

(* sort.Reverse(ByWeight).Less *)
ReverseLess(a, b) == Less(b, a)

InsertAt(s, k, w) == SubSeq(s, 1, k - 1) \o <<w>> \o SubSeq(s, k, Len(s))

(* w goes in front of the first element it is Less than under the reversed *)
(* order, behind every element it is not: equal weights keep their order   *)
InsertStable(sorted, w) ==
    LET ahead == {k \in DOMAIN sorted : ReverseLess(w, sorted[k])}
    IN  IF ahead = {} THEN Append(sorted, w)
        ELSE InsertAt(sorted, CHOOSE k \in ahead : \A j \in ahead : k <= j, w)

RECURSIVE SortFrom(_, _, _)
SortFrom(ws, k, sorted) ==
    IF k > Len(ws) THEN sorted
    ELSE SortFrom(ws, k + 1, InsertStable(sorted, ws[k]))

(* sort.Stable(sort.Reverse(ByWeight(words))) *)
SortStableReverse(ws) == SortFrom(ws, 1, <<>>)

(* ----------------------------------------------------- title and score *)
CountLetters(text) ==
    Cardinality({k \in DOMAIN text : IsLetter(text[k]) \/ IsDigit(text[k])})

RECURSIVE SumFrom(_, _)
SumFrom(s, k) == IF k > Len(s) THEN 0 ELSE s[k] + SumFrom(s, k + 1)

avgTruncated(slice) ==
    IF Len(slice) = 0 THEN [num |-> 0, den |-> 1]
    ELSE [num |-> SumFrom(slice, 1) \div Len(slice), den |-> 1]

(* avg: float64(sum) / float64(len(slice)) as the fraction num / den,      *)
(* 0 for the empty slice                                                   *)
avg(slice) ==
    IF Len(slice) = 0 THEN [num |-> 0, den |-> 1]
    ELSE [num |-> SumFrom(slice, 1), den |-> Len(slice)]

(* score > n, score a fraction with a positive denominator *)
ScoreAbove(score, n) == score.num > n * score.den

(* the filter of the earlier prototype (main.go line 130) *)
TitleGateOfPrototype(letters, confidence) ==
    letters >= 3 /\ confidence > 75

(* line 204 *)
TitleGate(letters, confidence) ==
    letters > 0 /\ confidence > WordConfidenceGate

CapReachedAt(t) == ByteLen(t) >= TitleCap

(* line 207 *)
CapReached(t) == ByteLen(t) > TitleCap

(* the loop of lines 194-210 from the k-th sorted word on *)
RECURSIVE TitleLoop(_, _, _, _)
TitleLoop(ws, k, t, confidences) ==
    IF k > Len(ws) THEN [title |-> t, confidences |-> confidences]
    ELSE LET word    == ws[k]
             letters == CountLetters(word.text)
             confs   == confidences \o Rep(word.confidence, letters)
             t2      == IF TitleGate(letters, word.confidence)
                        THEN t \o word.text \o <<" ">>
                        ELSE t
         IN  IF CapReached(t2) THEN [title |-> t2, confidences |-> confs]
             ELSE TitleLoop(ws, k + 1, t2, confs)

(* ocrImage once tesseract has written the markup h: "panic" when a word   *)
(* element cannot be parsed, else the sorted words, the title and the      *)
(* confidence score                                                        *)
ocrImage(h) ==
    LET found == FindPage1Words(h)
    IN  IF \E k \in DOMAIN found : WordPanics(found[k])
        THEN [status |-> "panic", words |-> <<>>, title |-> <<>>,
              confScore |-> [num |-> 0, den |-> 1]]
        ELSE LET words == SortStableReverse([k \in DOMAIN found |-> ParseWord(found[k])])
                 out   == TitleLoop(words, 1, <<>>, <<>>)
             IN  [status |-> "ok", words |-> words, title |-> out.title,
                  confScore |-> avg(out.confidences)]

(* --------------------------------------------------------------- inputs *)
BBox(top) == Property("bbox", << <<"1","0">>, top, <<"9","0">>, <<"9","9","9">> >>)

(* a word element as tesseract writes it:                                  *)
(* title="bbox l t r b; x_wconf c; x_fsize f"                              *)
RawWord(page, text, fsize, wconf, top, strong, em) ==
    [page |-> page, text |-> text,
     props |-> << BBox(top), Property("x_wconf", <<wconf>>),
                  Property("x_fsize", <<fsize>>) >>,
     strong |-> strong, em |-> em]

(* the same without x_fsize (hocr_font_info off) *)
RawWordNoFont(page, text, wconf, top, strong, em) ==
    [page |-> page, text |-> text,
     props |-> << BBox(top), Property("x_wconf", <<wconf>>) >>,
     strong |-> strong, em |-> em]

(* a word element whose title attribute is empty *)
RawWordNoTitle(page, text) ==
    [page |-> page, text |-> text, props |-> << BareProperty("") >>,
     strong |-> FALSE, em |-> FALSE]

THerr == <<"H","e","r","r">>
T23 == <<"2","3">>
Tno == <<"n","o">>
THoehenring == <<"H","U+00F6","h","e","n","r","i","n","g">>
THoehenringMojibake == <<"H","U+00C3","U+00B6","h","e","n","r","i","n","g">>
LowTop == <<"1","0","0">>
AtTallTop == <<"1","4","0","0">>
TallTop == <<"1","4","0","1">>

WHerr == RawWord(1, THerr, <<"1","2">>, <<"9","0">>, LowTop, FALSE, FALSE)
Wa == RawWord(1, <<"a">>, <<"1","2">>, <<"1","0">>, LowTop, FALSE, TRUE)
WDashes == RawWord(1, <<"-","-">>, <<"1","2">>, <<"9","0">>, LowTop, FALSE, FALSE)
WLongX == RawWord(1, Rep("x", 39), <<"1","2">>, <<"9","0">>, LowTop, TRUE, FALSE)
WLongY == RawWord(1, Rep("y", 39), <<"8">>, <<"7","1">>, TallTop, FALSE, FALSE)
WUmlauts == RawWord(1, Rep("U+00F6", 20), <<"1","2">>, <<"9","0">>, AtTallTop, FALSE, FALSE)
Wz == RawWord(1, <<"z">>, <<"1","2">>, <<"7","0">>, LowTop, FALSE, FALSE)
W23 == RawWordNoFont(1, T23, <<"7","1">>, TallTop, TRUE, FALSE)
Wno == RawWord(1, Tno, <<"1","2">>, <<"6","9">>, LowTop, FALSE, FALSE)
WEmpty == RawWord(1, <<>>, <<"1","2">>, <<"9","0">>, LowTop, FALSE, FALSE)
WPage2 == RawWord(2, <<"a">>, <<"1","2">>, <<"9","0">>, LowTop, FALSE, FALSE)
WNoTitle == RawWordNoTitle(1, <<"a">>)

(* the word elements pages are built from *)
PageWords == {WHerr, Wa, WDashes, WLongX, WLongY, WUmlauts, Wz, W23, Wno,
              WEmpty, WPage2, WNoTitle}

(* single words over every combination of the fields the scorer reads or   *)
(* could read                                                              *)
ScoredWords ==
    { RawWord(1, t, f, c, top, st, em) :
        t \in {THerr, T23, <<"a">>, THoehenring, THoehenringMojibake},
        f \in {<<>>, <<"0">>, <<"8">>, <<"1","2">>, <<"x">>},
        c \in {<<"1","0">>, <<"9","0">>},
        top \in {<<"0">>, AtTallTop, TallTop},
        st \in BOOLEAN, em \in BOOLEAN }

BoundedSeq(S, n) == UNION {[1..k -> S] : k \in 0..n}

Markup(hasPage1, ws) == [hasPage1 |-> hasPage1, words |-> ws]

(* the markup files ocrImage is applied to on its own *)
OcrInputs ==
    { Markup(TRUE, ws) : ws \in BoundedSeq(PageWords, MaxWords) }
      \cup { Markup(FALSE, ws) : ws \in BoundedSeq({WPage2}, MaxWords) }
      \cup { Markup(TRUE, <<w>>) : w \in ScoredWords }
      \cup { Markup(TRUE, <<WLongX, WLongY, WHerr, W23>>),
             Markup(TRUE, <<Wno, WLongX, WUmlauts, Wa>>) }

(* the markup files tesseract leaves for a rotation candidate *)
CandidateMarkups ==
    { Markup(FALSE, <<>>), Markup(FALSE, <<WPage2>>), Markup(TRUE, <<Wa>>),
      Markup(TRUE, <<W23, Wno>>), Markup(TRUE, <<W23, Wa>>),
      Markup(TRUE, <<WHerr>>), Markup(TRUE, <<WHerr, Wa>>),
      Markup(TRUE, <<WHerr, WNoTitle>>) }

RotateKeyword == <<"_","r","o","t","a","t","e">>

(* display names of the scanned files *)
DocTitles ==
    { <<"s","c","a","n">>,
      RotateKeyword,
      <<"a">> \o RotateKeyword \o <<"9","0">>,
      RotateKeyword \o <<"0">>,
      RotateKeyword \o <<"0","9","0","x">>,
      RotateKeyword \o <<"1","8","0">> \o RotateKeyword \o <<"2","7","0">>,
      RotateKeyword \o <<"x">> \o RotateKeyword \o <<"2","7","0">> }

(* ---------------------------------------------------------------- main *)
(* regexp "_rotate([0-9]+)", FindStringSubmatch: the leftmost match and    *)
(* its group, the empty list when there is no match                        *)
FindRotateSubmatch(name) ==
    LET n == Len(RotateKeyword)
        starts == {p \in 1..Len(name) :
                      /\ p + n <= Len(name)
                      /\ SubSeq(name, p, p + n - 1) = RotateKeyword
                      /\ IsDigit(name[p + n])}
    IN  IF starts = {} THEN <<>>
        ELSE LET p == CHOOSE q \in starts : \A r \in starts : q <= r
                 ends == {e \in (p + n)..Len(name) :
                             \A k \in (p + n)..e : IsDigit(name[k])}
                 e == CHOOSE x \in ends : \A y \in ends : y <= x
             IN  << SubSeq(name, p, e), SubSeq(name, p + n, e) >>

DefaultRotations == <<0, 180, 90, 270>>

RotationsIgnoringName(name) == DefaultRotations

(* lines 293-299 *)
Rotations(name) ==
    LET rotateMatch == FindRotateSubmatch(name)
    IN  IF Len(rotateMatch) = 2 THEN << Atoi(rotateMatch[2]) >>
        ELSE DefaultRotations

(* lines 302-307: "ocr-" + id, with "-r" + angle for a non-zero angle *)
OutputPrefixR(id, angle) ==
    IF angle = 0 THEN <<"ocr-", id>> ELSE <<"ocr-", id, "-r", angle>>

GoodEnoughAtLeast(confScore) ==
    confScore.num >= GoodEnoughThreshold * confScore.den

(* line 317 *)
GoodEnough(confScore) == ScoreAbove(confScore, GoodEnoughThreshold)

ReplacesAlways(goodEnough, t) == TRUE

ReplacesOnlyGoodEnough(goodEnough, t) == goodEnough

(* line 318 *)
Replaces(goodEnough, t) == goodEnough \/ ByteLen(t) = 0

NoOcr == [status |-> "none", words |-> <<>>, title |-> <<>>,
          confScore |-> [num |-> 0, den |-> 1]]

NoMarkup == Markup(FALSE, <<>>)

StartDocument(n, name) ==
    /\ pc = "fetch"
    /\ docNo = n
    /\ docTitle = name
    /\ rotations = <<>>
    /\ idx = 1
    /\ title = <<>>
    /\ outputPrefix = <<>>
    /\ tried = <<>>
    /\ rotated = <<>>
    /\ results = <<>>
    /\ uploaded = <<>>
    /\ hocr = NoMarkup
    /\ ocrOut = NoOcr

Init == \E name \in DocTitles : StartDocument(1, name)

Fatal ==
    /\ pc' = "fatal"
    /\ UNCHANGED <<docNo, docTitle, rotations, idx, title, outputPrefix,
                   tried, rotated, results, uploaded, hocr, ocrOut>>

(* lines 266-281: a file without download URL is skipped; a failed         *)
(* download or a file that cannot be created ends the program              *)
Fetch ==
    /\ pc = "fetch"
    /\ \E outcome \in {"ok", "nourl", "fail"} :
         \/ /\ outcome = "ok"
            /\ pc' = "rasterize"
            /\ UNCHANGED <<docNo, docTitle, rotations, idx, title, outputPrefix,
                           tried, rotated, results, uploaded, hocr, ocrOut>>
         \/ /\ outcome = "nourl"
            /\ pc' = "skipped"
            /\ UNCHANGED <<docNo, docTitle, rotations, idx, title, outputPrefix,
                           tried, rotated, results, uploaded, hocr, ocrOut>>
         \/ /\ outcome = "fail"
            /\ Fatal

(* lines 282-299: ghostscript, then the candidate angles *)
Rasterize ==
    /\ pc = "rasterize"
    /\ \E gsOk \in BOOLEAN :
         \/ /\ gsOk
            /\ pc' = "loop"
            /\ rotations' = Rotations(docTitle)
            /\ idx' = 1
            /\ title' = <<>>
            /\ outputPrefix' = <<>>
            /\ UNCHANGED <<docNo, docTitle, tried, rotated, results, uploaded,
                           hocr, ocrOut>>
         \/ /\ ~gsOk
            /\ Fatal

(* lines 308-313: convert -rotate fails *)
RotateFails(angle) ==
    /\ angle # 0
    /\ tried' = Append(tried, angle)
    /\ rotated' = Append(rotated, angle)
    /\ pc' = "fatal"
    /\ UNCHANGED <<docNo, docTitle, rotations, idx, title, outputPrefix,
                   results, uploaded, hocr, ocrOut>>

OcrToolFailsAndSkips(angle) ==
    /\ tried' = Append(tried, angle)
    /\ rotated' = IF angle = 0 THEN rotated ELSE Append(rotated, angle)
    /\ idx' = idx + 1
    /\ pc' = IF idx = Len(rotations) THEN "persist" ELSE "loop"
    /\ UNCHANGED <<docNo, docTitle, rotations, title, outputPrefix,
                   results, uploaded, hocr, ocrOut>>

(* lines 135-153, 186-189: tesseract fails, the .hocr file cannot be       *)
(* opened or read, or the -title.txt file cannot be created                *)
OcrToolFails(angle) ==
    /\ tried' = Append(tried, angle)
    /\ rotated' = IF angle = 0 THEN rotated ELSE Append(rotated, angle)
    /\ pc' = "fatal"
    /\ UNCHANGED <<docNo, docTitle, rotations, idx, title, outputPrefix,
                   results, uploaded, hocr, ocrOut>>

(* lines 159-184: a word element that cannot be parsed *)
OcrPanics(angle, h) ==
    /\ ocrImage(h).status = "panic"
    /\ tried' = Append(tried, angle)
    /\ rotated' = IF angle = 0 THEN rotated ELSE Append(rotated, angle)
    /\ hocr' = h
    /\ ocrOut' = ocrImage(h)
    /\ pc' = "fatal"
    /\ UNCHANGED <<docNo, docTitle, rotations, idx, title, outputPrefix,
                   results, uploaded>>

(* lines 315-324: ocrImage returns and the best result is updated *)
OcrReturns(angle, h) ==
    LET out           == ocrImage(h)
        outputPrefixR == OutputPrefixR(docNo, angle)
        titleR        == out.title
        confScore     == out.confScore
        goodEnough    == GoodEnough(confScore)
        replaces      == Replaces(goodEnough, title)
    IN  /\ out.status = "ok"
        /\ tried' = Append(tried, angle)
        /\ rotated' = IF angle = 0 THEN rotated ELSE Append(rotated, angle)
        /\ hocr' = h
        /\ ocrOut' = out
        /\ results' = Append(results,
                             [angle |-> angle, outputPrefix |-> outputPrefixR,
                              title |-> titleR, confScore |-> confScore,
                              hasPage1 |-> h.hasPage1])
        /\ outputPrefix' = IF replaces THEN outputPrefixR ELSE outputPrefix
        /\ title' = IF replaces THEN titleR ELSE title
        /\ idx' = idx + 1
        /\ pc' = IF goodEnough \/ idx = Len(rotations) THEN "persist" ELSE "loop"
        /\ UNCHANGED <<docNo, docTitle, rotations, uploaded>>

(* one iteration of the loop of lines 300-325 *)
TryAngle ==
    /\ pc = "loop"
    /\ idx <= Len(rotations)
    /\ LET angle == rotations[idx]
       IN  \/ RotateFails(angle)
           \/ OcrToolFails(angle)
           \/ \E h \in CandidateMarkups : OcrPanics(angle, h)
           \/ \E h \in CandidateMarkups : OcrReturns(angle, h)

(* lines 327-345: the text and the PDF at outputPrefix are read, the file  *)
(* is inserted with the title, the source is starred.  A failed insert     *)
(* leaves insertedFile nil and line 340 panics on it.                      *)
Persist ==
    /\ pc = "persist"
    /\ \E outcome \in {"ok", "noartifact", "insertfails", "patchfails"} :
         \/ /\ outcome \in {"noartifact", "insertfails"}
            /\ Fatal
         \/ /\ outcome = "patchfails"
            /\ uploaded' = <<[title |-> title, outputPrefix |-> outputPrefix]>>
            /\ pc' = "fatal"
            /\ UNCHANGED <<docNo, docTitle, rotations, idx, title, outputPrefix,
                           tried, rotated, results, hocr, ocrOut>>
         \/ /\ outcome = "ok"
            /\ uploaded' = <<[title |-> title, outputPrefix |-> outputPrefix]>>
            /\ pc' = "done"
            /\ UNCHANGED <<docNo, docTitle, rotations, idx, title, outputPrefix,
                           tried, rotated, results, hocr, ocrOut>>

(* line 265: the next file of the listing *)
NextDocument ==
    /\ pc \in {"done", "skipped"}
    /\ docNo < MaxDocs
    /\ \E name \in DocTitles :
         /\ pc' = "fetch"
         /\ docNo' = docNo + 1
         /\ docTitle' = name
         /\ rotations' = <<>>
         /\ idx' = 1
         /\ title' = <<>>
         /\ outputPrefix' = <<>>
         /\ tried' = <<>>
         /\ rotated' = <<>>
         /\ results' = <<>>
         /\ uploaded' = <<>>
         /\ hocr' = NoMarkup
         /\ ocrOut' = NoOcr

Next == Fetch \/ Rasterize \/ TryAngle \/ Persist \/ NextDocument

Spec == Init /\ [][Next]_vars

(* ------------------------------------------- ocrImage applied on its own *)
InitOcr ==
    /\ pc = "ocr"
    /\ hocr \in OcrInputs
    /\ ocrOut = NoOcr
    /\ docNo = 1
    /\ docTitle = <<>>
    /\ rotations = <<>>
    /\ idx = 1
    /\ title = <<>>
    /\ outputPrefix = <<>>
    /\ tried = <<>>
    /\ rotated = <<>>
    /\ results = <<>>
    /\ uploaded = <<>>

(* lines 150-213 on the markup file hocr *)
OcrImageCall ==
    /\ pc = "ocr"
    /\ ocrOut' = ocrImage(hocr)
    /\ pc' = IF ocrImage(hocr).status = "panic" THEN "fatal" ELSE "returned"
    /\ UNCHANGED <<docNo, docTitle, rotations, idx, title, outputPrefix,
                   tried, rotated, results, uploaded, hocr>>

NextOcr == OcrImageCall

SpecOcr == InitOcr /\ [][NextOcr]_vars

SpecAll == (Init \/ InitOcr) /\ [][Next \/ NextOcr]_vars

(* ===================================================== ocrImage: claims *)
(* what the claims speak of, stated over the sorted word list ws without   *)
(* the loop: the letter/digit count of a text, the words that enter the    *)
(* title, the title length after the first k words, and the index of the   *)
(* word at which the title first exceeds 80 bytes (the last word if none)  *)
AlnumCount(text) ==
    Cardinality({k \in DOMAIN text : text[k] \in Letters \cup Digits})

EntersTitle(w) == AlnumCount(w.text) > 0 /\ w.confidence > 70

RECURSIVE TitleUpTo(_, _)
TitleUpTo(ws, k) ==
    IF k = 0 THEN <<>>
    ELSE IF EntersTitle(ws[k]) THEN TitleUpTo(ws, k - 1) \o ws[k].text \o <<" ">>
    ELSE TitleUpTo(ws, k - 1)

CutIndex(ws) ==
    LET over == {k \in DOMAIN ws : ByteLen(TitleUpTo(ws, k)) > 80}
    IN  IF over = {} THEN Len(ws) ELSE CHOOSE k \in over : \A j \in over : k <= j

RECURSIVE SampleCount(_, _)
SampleCount(ws, k) ==
    IF k = 0 THEN 0 ELSE AlnumCount(ws[k].text) + SampleCount(ws, k - 1)

RECURSIVE SampleSum(_, _)
SampleSum(ws, k) ==
    IF k = 0 THEN 0
    ELSE AlnumCount(ws[k].text) * ws[k].confidence + SampleSum(ws, k - 1)

(* score is the mean of the samples of the first k words, 0 without samples *)
IsMeanOfFirst(score, ws, k) ==
    /\ score.den > 0
    /\ IF SampleCount(ws, k) = 0 THEN score.num = 0
       ELSE score.num * SampleCount(ws, k) = SampleSum(ws, k) * score.den

Returned == pc = "returned" /\ ocrOut.status = "ok"

(* C6 as stated: the confidence ocrImage returns is the mean, one sample   *)
(* per letter/digit, over EVERY word of the page, 0 without any sample.    *)
C6_MeanOverEveryWord ==
    Returned => IsMeanOfFirst(ocrOut.confScore, ocrOut.words, Len(ocrOut.words))

(* C6 amended: the confidence is the mean, one sample per letter/digit,    *)
(* over the words in descending-weight order up to and including the word  *)
(* at which the title first exceeds 80 bytes (every word when it never     *)
(* does), whether or not a word passes the confidence > 70 gate; 0 without *)
(* any sample; a 4-letter word at 90 and a 1-letter word at 10 give 74.    *)
C6_MeanOverProcessedWords ==
    Returned =>
      /\ IsMeanOfFirst(ocrOut.confScore, ocrOut.words, CutIndex(ocrOut.words))
      /\ hocr = Markup(TRUE, <<WHerr, Wa>>) =>
           ocrOut.confScore.num = 74 * ocrOut.confScore.den

(* a page whose title was cut, with a word behind the cut that has letters *)
(* and a confidence below the gate, and a returned score that is no integer*)
C6_Witness ==
    /\ Returned
    /\ CutIndex(ocrOut.words) < Len(ocrOut.words)
    /\ \E k \in (CutIndex(ocrOut.words) + 1)..Len(ocrOut.words) :
         /\ AlnumCount(ocrOut.words[k].text) > 0
         /\ ocrOut.words[k].confidence <= 70
    /\ \E k \in 1..CutIndex(ocrOut.words) :
         /\ AlnumCount(ocrOut.words[k].text) > 0
         /\ ocrOut.words[k].confidence <= 70
    /\ ocrOut.confScore.num > 0

(* the parsed words of the page in document order *)
ParsedInOrder ==
    LET found == FindPage1Words(hocr)
    IN  [k \in DOMAIN found |-> ParseWord(found[k])]

(* ws is ps in descending-weight order, equal weights in the order of ps *)
IsStableDescending(ws, ps) ==
    /\ Len(ws) = Len(ps)
    /\ \A i, j \in DOMAIN ws : i < j => ws[i].weight >= ws[j].weight
    /\ \A p \in {ps[k] : k \in DOMAIN ps} :
         LET SameWeight(w) == w.weight = p.weight
         IN  SelectSeq(ws, SameWeight) = SelectSeq(ps, SameWeight)

(* C7: the title is the concatenation, in descending-weight order (ties in *)
(* document order), of text + " " of the words with a letter/digit and     *)
(* confidence > 70, up to and including the first word that makes its byte *)
(* length exceed 80; no word follows that one, and the title without its   *)
(* last word is at most 80 bytes long.                                     *)
C7_TitleCut ==
    Returned =>
      LET ws  == ocrOut.words
          cut == CutIndex(ws)
      IN  /\ IsStableDescending(ws, ParsedInOrder)
          /\ ocrOut.title = TitleUpTo(ws, cut)
          /\ ByteLen(ocrOut.title) > 80 =>
               /\ EntersTitle(ws[cut])
               /\ ocrOut.title = TitleUpTo(ws, cut - 1) \o ws[cut].text \o <<" ">>
               /\ ByteLen(TitleUpTo(ws, cut - 1)) <= 80

(* a title of exactly 80 bytes was extended by one more word, and a word   *)
(* that would enter the title stayed behind the cut                        *)
C7_Witness ==
    /\ Returned
    /\ ByteLen(ocrOut.title) > 80
    /\ ByteLen(TitleUpTo(ocrOut.words, CutIndex(ocrOut.words) - 1)) = 80
    /\ \E k \in DOMAIN ocrOut.words :
         k > CutIndex(ocrOut.words) /\ EntersTitle(ocrOut.words[k])

(* C8: weight = fontSize*10, minus 50 if height > 1400, minus 100 if the   *)
(* exact text is in the stoplist, both penalties stacking; isStrong, isEm  *)
(* and confidence play no part.                                            *)
C8_Weight ==
    Returned =>
      \A k \in DOMAIN ocrOut.words :
        LET w == ocrOut.words[k]
        IN  w.weight = w.fontSize * 10
                         - (IF w.height > 1400 THEN 50 ELSE 0)
                         - (IF w.text \in wordStoplist THEN 100 ELSE 0)

(* a bold, emphasised stoplist word of a known font size with both         *)
(* penalties applied                                                       *)
C8_Witness ==
    /\ Returned
    /\ \E k \in DOMAIN ocrOut.words :
         LET w == ocrOut.words[k]
         IN  /\ w.isStrong /\ w.isEm
             /\ w.fontSize > 0
             /\ w.height > 1400
             /\ w.text \in wordStoplist
             /\ w.weight = w.fontSize * 10 - 150

(* ================================================ retry loop: claims *)
Above70(score) == score.num > 70 * score.den

IsPrefix(s, t) == Len(s) <= Len(t) /\ s = SubSeq(t, 1, Len(s))

LoopOver == pc \in {"persist", "done"}

IsBest(r) == title = r.title /\ outputPrefix = r.outputPrefix

NoneAbove70 == \A k \in DOMAIN results : ~Above70(results[k].confScore)

NonZero(angle) == angle # 0

(* C1: the first candidate with confidence > 70 becomes the best result    *)
(* and ends the loop at once: it is the last angle tried, rotated or       *)
(* OCR'd; a confidence of 70 or less, exactly 70 included, does not end    *)
(* the loop before the last candidate.                                     *)
C1_FirstGoodEnoughHalts ==
    /\ \A k \in DOMAIN results :
         Above70(results[k].confScore) =>
           /\ k = Len(results)
           /\ tried = SubSeq(rotations, 1, k)
           /\ rotated = SelectSeq(tried, NonZero)
           /\ pc \in {"persist", "done", "fatal"}
           /\ IsBest(results[k])
    /\ ( /\ results # <<>>
         /\ Len(tried) = Len(results)
         /\ Len(results) < Len(rotations)
         /\ ~Above70(results[Len(results)].confScore) ) => pc = "loop"

(* the second of four candidates is good enough after a first one at       *)
(* exactly 70                                                              *)
C1_Witness ==
    /\ pc = "persist"
    /\ Len(rotations) = 4
    /\ Len(results) = 2 /\ tried = <<0, 180>>
    /\ results[1].confScore.num = 70 * results[1].confScore.den
    /\ Above70(results[2].confScore)
    /\ IsBest(results[2])
    /\ results[1].title # results[2].title

(* C2 as stated: with all four candidates at or below 70, all four are     *)
(* evaluated and the best is that of the first candidate (angle 0).        *)
C2_FirstCandidateIsBest ==
    (LoopOver /\ rotations = <<0, 180, 90, 270>> /\ NoneAbove70) =>
      /\ Len(results) = 4
      /\ IsBest(results[1])

(* C2 amended: with all four candidates at or below 70, all four are       *)
(* evaluated; the first candidate becomes the provisional best             *)
(* unconditionally, and the returned best is the first candidate's if its  *)
(* title is non-empty, else that of the earliest candidate with a          *)
(* non-empty title, else (all titles empty) the last candidate's.          *)
C2_FirstNonEmptyOfFour ==
    /\ (Len(results) = 1 /\ Len(tried) = 1) => IsBest(results[1])
    /\ (LoopOver /\ rotations = <<0, 180, 90, 270>> /\ NoneAbove70) =>
         /\ Len(results) = 4
         /\ results[1].title # <<>> => IsBest(results[1])
         /\ LET ne == {k \in 1..4 : results[k].title # <<>>}
            IN  IF ne = {} THEN IsBest(results[4])
                ELSE IsBest(results[CHOOSE k \in ne : \A j \in ne : k <= j])

(* four candidates below 70, the first with a non-empty title is kept      *)
(* although the third scores higher                                        *)
C2_Witness ==
    /\ pc = "persist"
    /\ rotations = <<0, 180, 90, 270>> /\ Len(results) = 4 /\ NoneAbove70
    /\ results[1].title # <<>>
    /\ results[3].confScore.num * results[1].confScore.den
         > results[1].confScore.num * results[3].confScore.den
    /\ results[4].title = <<>>
    /\ IsBest(results[1])
    /\ outputPrefix = <<"ocr-", docNo>>

C3_State ==
    (results # <<>> /\ NoneAbove70) =>
      /\ \A k \in DOMAIN results : results[k].angle = rotations[k]
      /\ LoopOver => Len(results) = Len(rotations)
      /\ LET ne == {k \in DOMAIN results : results[k].title # <<>>}
         IN  ne # {} => IsBest(results[CHOOSE k \in ne : \A j \in ne : k <= j])

C3_Step ==
    ( /\ title # <<>>
      /\ docNo' = docNo
      /\ <<title, outputPrefix>>' # <<title, outputPrefix>> ) =>
        /\ Len(results') = Len(results) + 1
        /\ Above70(results'[Len(results')].confScore)
        /\ title' = results'[Len(results')].title
        /\ outputPrefix' = results'[Len(results')].outputPrefix

(* C3: while no candidate reaches confidence > 70 the candidates are tried *)
(* in list order, all of them by the end of the loop, and the best is the  *)
(* earliest candidate with a non-empty title, whatever the confidences;    *)
(* a best result with a non-empty title is replaced only by a later        *)
(* candidate with confidence > 70.                                         *)
C3_EarliestNonEmptyTitle == []C3_State /\ [][C3_Step]_vars

(* an empty first title, then the second candidate kept over a third with  *)
(* a higher confidence                                                     *)
C3_Witness ==
    /\ pc = "persist"
    /\ Len(results) = 4 /\ NoneAbove70
    /\ results[1].title = <<>>
    /\ results[2].title # <<>>
    /\ results[3].title # <<>>
    /\ results[3].confScore.num * results[2].confScore.den
         > results[2].confScore.num * results[3].confScore.den
    /\ IsBest(results[2])
    /\ outputPrefix # results[3].outputPrefix

C4_State ==
    /\ Len(tried) > Len(results) =>
         /\ pc = "fatal"
         /\ Len(tried) = Len(results) + 1
         /\ uploaded = <<>>
    /\ (pc = "fatal" /\ rotations = <<>>) => (tried = <<>> /\ uploaded = <<>>)

C4_Step ==
    /\ pc # "fatal"
    /\ (tried # <<>> /\ Len(tried') > Len(tried)) =>
         /\ Len(results) = Len(tried)
         /\ ~Above70(results[Len(results)].confScore)

(* C4: a failed rasterize, rotate or OCR step ends the processing: the     *)
(* candidate it failed on is the last one attempted, nothing is handed to  *)
(* the upload, and no step follows; the loop moves to a next angle only    *)
(* after a returned result of confidence 70 or less.                       *)
C4_ToolFailureAborts == []C4_State /\ [][C4_Step]_vars

(* the rotate or OCR step of the second of four candidates failed *)
C4_Witness ==
    /\ pc = "fatal"
    /\ Len(rotations) = 4
    /\ tried = <<0, 180>> /\ rotated = <<180>>
    /\ Len(results) = 1
    /\ uploaded = <<>>

(* C5 as stated: when the first-page scope is absent from the markup of    *)
(* every candidate attempted, the loop does not finish with a best result  *)
(* and nothing is handed to the upload.                                    *)
C5_MissingPageScopeFails ==
    ( /\ results # <<>>
      /\ Len(tried) = Len(results)
      /\ \A k \in DOMAIN results : ~results[k].hasPage1 ) =>
        (~LoopOver /\ uploaded = <<>>)

(* the angles named by a directive of the name: "_rotate" followed by a    *)
(* maximal run of digits                                                   *)
DirectiveAngles(name) ==
    LET n == Len(RotateKeyword)
    IN  { DigitsValue(SubSeq(name, p + n, e), 1, 0) :
            <<p, e>> \in { pe \in (1..Len(name)) \X (1..Len(name)) :
                /\ pe[1] + n <= pe[2]
                /\ SubSeq(name, pe[1], pe[1] + n - 1) = RotateKeyword
                /\ \A k \in (pe[1] + n)..pe[2] : name[k] \in Digits
                /\ (pe[2] = Len(name) \/ name[pe[2] + 1] \notin Digits) } }

(* C9: without a rotation directive in the name the angles attempted are a *)
(* prefix of [0, 180, 90, 270]; with the directive "_rotate" + digits of A *)
(* the only angle attempted is A, and that candidate's title and output    *)
(* prefix are the result whatever its confidence.                          *)
C9_AnglesAttempted ==
    /\ pc \in {"fetch", "rasterize", "skipped"} => tried = <<>>
    /\ pc \in {"loop", "persist", "done"} =>
         IF DirectiveAngles(docTitle) = {}
         THEN /\ IsPrefix(tried, <<0, 180, 90, 270>>)
              /\ pc = "loop" => Len(tried) < 4
         ELSE \E A \in DirectiveAngles(docTitle) :
                /\ IsPrefix(tried, <<A>>)
                /\ LoopOver =>
                     /\ tried = <<A>>
                     /\ Len(results) = 1
                     /\ results[1].angle = A
                     /\ IsBest(results[1])
                     /\ outputPrefix = IF A = 0 THEN <<"ocr-", docNo>>
                                       ELSE <<"ocr-", docNo, "-r", A>>

(* a name with the directive for 90 degrees: one candidate at 90 degrees,  *)
(* kept with a confidence below 70                                         *)
C9_Witness ==
    /\ pc = "persist"
    /\ docTitle = <<"a">> \o RotateKeyword \o <<"9","0">>
    /\ tried = <<90>> /\ rotated = <<90>>
    /\ ~Above70(results[1].confScore)
    /\ results[1].title # <<>>
    /\ IsBest(results[1])

(* C10: a confidence above 70 returned by ocrImage comes with a non-empty  *)
(* title, so the best title is non-empty whenever the loop ends on a good  *)
(* enough candidate; and the retained title and output prefix are those of *)
(* one and the same evaluated candidate (both empty before the first).     *)
C10_GoodEnoughHasTitle ==
    /\ (ocrOut.status = "ok" /\ Above70(ocrOut.confScore)) => ocrOut.title # <<>>
    /\ \A k \in DOMAIN results :
         Above70(results[k].confScore) => (results[k].title # <<>> /\ title # <<>>)
    /\ IF results = <<>> THEN title = <<>> /\ outputPrefix = <<>>
       ELSE \E k \in DOMAIN results : IsBest(results[k])

(* the loop ended on a good enough second candidate after a first one      *)
(* without title                                                           *)
C10_Witness ==
    /\ pc = "persist"
    /\ Len(results) = 2
    /\ results[1].title = <<>>
    /\ Above70(results[2].confScore)
    /\ ocrOut.title = title /\ title # <<>>
    /\ outputPrefix = results[2].outputPrefix

====
